---- MODULE Spec2Model ----
(***************************************************************************)
(* Model of src/pulga.rs: the host-introspection lookups of newfetch and   *)
(* their formatters.                                                       *)
(*                                                                         *)
(* Text is modelled as a sequence of bytes, each byte a one-element string *)
(* ("a", "=", "\n"); the two bytes of a two-byte UTF-8 character are the   *)
(* tokens LEAD and CONT, and BAD is a byte that never occurs in valid      *)
(* UTF-8.  Slicing a str at a byte offset that is past the end or inside a *)
(* character panics, as in Rust.                                           *)
(***************************************************************************)
EXTENDS Integers, Sequences, FiniteSets, TLC

VARIABLES called, input, result, aux
vars == <<called, input, result, aux>>

\* ---------------------------------------------------------------- bounds
MaxCount == 2
MaxLines == 2
MaxExp2 == 42

\* --------------------------------------------------------- text helpers
None == [tag |-> "None"]
Some(v) == [tag |-> "Some", val |-> v]
\* a call either returns (Ok(v), or an Option: Some(v), None) or panics
Ok(v) == [tag |-> "Ok", val |-> v]
Panic == [tag |-> "panic"]

LEAD == "C3"
CONT == "A9"
BAD == "FF"

RECURSIVE to_string(_)
\* format!("{}", n) of an unsigned integer: its decimal digits
DigitChars == <<"0", "1", "2", "3", "4", "5", "6", "7", "8", "9">>
to_string(n) == IF n < 10 THEN <<DigitChars[n + 1]>>
                ELSE to_string(n \div 10) \o <<DigitChars[(n % 10) + 1]>>

Last(s) == s[Len(s)]

\* ------------------------------------------------------------ get_uptime
\* the period table of get_uptime, in seconds per unit
periods == << [period |-> 60 * 60 * 24 * 365, name |-> <<"y", "e", "a", "r">>],
              [period |-> 60 * 60 * 24 * 30, name |-> <<"m", "o", "n", "t", "h">>],
              [period |-> 60 * 60 * 24, name |-> <<"d", "a", "y">>],
              [period |-> 60 * 60, name |-> <<"h", "o", "u", "r">>],
              [period |-> 60, name |-> <<"m", "i", "n", "u", "t", "e">>],
              [period |-> 1, name |-> <<"s", "e", "c", "o", "n", "d">>] >>

\* let mut uptime_in_seconds = uptime_in_centiseconds as u64: a cast, no division
IgnoreDecimalPlaces(uptime_in_centiseconds) == uptime_in_centiseconds

\* "Fix plural": push 's' when times > 1
FixPluralMut(times) == IF times >= 1 THEN <<"s">> ELSE <<>>
FixPlural(times) == IF times > 1 THEN <<"s">> ELSE <<>>

\* "Update for next": uptime_in_seconds %= period
UpdateForNextMut(uptime_in_seconds, period) == uptime_in_seconds - period
UpdateForNext(uptime_in_seconds, period) == uptime_in_seconds % period

\* One iteration of the for loop over the periods.  st holds the two mutable
\* locals; times records the quotient this iteration computed.
LoopBody(st, p) ==
    LET times == st.uptime_in_seconds \div p.period
    IN  IF times > 0
        THEN [uptime |-> st.uptime
                         \o (IF st.uptime # <<>> THEN <<" ">> ELSE <<>>)
                         \o to_string(times) \o <<" ">>
                         \o p.name
                         \o FixPlural(times),
              uptime_in_seconds |-> UpdateForNext(st.uptime_in_seconds, p.period),
              times |-> times]
        ELSE [st EXCEPT !.times = times]

\* The loop's states: the state before the loop, then the state after each
\* period of the table, in order.
RECURSIVE UptimeLoop(_, _)
UptimeLoop(trace, i) ==
    IF i > Len(periods) THEN trace
    ELSE UptimeLoop(Append(trace, LoopBody(Last(trace), periods[i])), i + 1)

UptimeTrace(uptime_in_centiseconds) ==
    UptimeLoop(<< [uptime |-> <<>>,
                   uptime_in_seconds |-> IgnoreDecimalPlaces(uptime_in_centiseconds),
                   times |-> 0] >>, 1)

get_uptime(uptime_in_centiseconds) == Last(UptimeTrace(uptime_in_centiseconds)).uptime

\* ---------------------------------------------------------- pretty_bytes
\* An f64 magnitude is [neg, mant, exp]: the value (-1)^neg * mant * 2^exp with
\* exp >= 0, which every u64 with a short mantissa converts to exactly.
RECURSIVE Pow2(_)
Pow2(k) == IF k = 0 THEN 1 ELSE 2 * Pow2(k - 1)

RECURSIVE Log2Floor(_)
Log2Floor(n) == IF n < 2 THEN 0 ELSE 1 + Log2Floor(n \div 2)

F64(n) == [neg |-> n < 0, mant |-> IF n < 0 THEN -n ELSE n, exp |-> 0]

UNITS == << <<"B">>, <<"k", "B">>, <<"M", "B">>, <<"G", "B">>, <<"T", "B">> >>

\* (num.ln() / 1024_f64.ln()).floor() as i32, for num >= 1:
\* log2(mant * 2^exp) = log2(mant) + exp and ln(1024) = 10 ln(2)
FloorLog1024(num) == (Log2Floor(num.mant) + num.exp) \div 10

\* cmp::min(v1, 4_i32)
ClampExponentMut(v1) == v1
ClampExponent(v1) == IF v1 < 4 THEN v1 ELSE 4

\* n / 2^k rounded to the nearest integer, ties to even (what {:.2} does with
\* the exact value of the quotient)
RoundShift(n, k) ==
    LET d == Pow2(k)
        q == n \div d
        r == n % d
    IN  IF 2 * r > d \/ (2 * r = d /\ q % 2 = 1) THEN q + 1 ELSE q

\* num / 1024_f64.powi(exponent), in hundredths as {:.2} rounds it
Hundredths(num, exponent) ==
    LET sh == num.exp - 10 * exponent
    IN  IF sh >= 0 THEN 100 * num.mant * Pow2(sh)
        ELSE RoundShift(100 * num.mant, -sh)

\* format!("{:.2}", v) of v = h / 100
Fixed2(h) == to_string(h \div 100) \o <<".">>
             \o <<DigitChars[((h \div 10) % 10) + 1], DigitChars[(h % 10) + 1]>>

\* the locals of pretty_bytes on the path past the num < 1.0 return
pretty_bytes_locals(num) ==
    LET v1 == FloorLog1024(num)
        exponent == ClampExponent(v1)
    IN  [v1 |-> v1, exponent |-> exponent,
         hundredths |-> IF exponent \in 0..4 THEN Hundredths(num, exponent) ELSE 0]

pretty_bytes(num) ==
    LET negative == IF num.neg /\ num.mant # 0 THEN <<"-">> ELSE <<>>
    IN  IF num.mant = 0
        THEN Ok(negative \o <<"0">> \o <<" ">> \o <<"B">>)
        ELSE LET l == pretty_bytes_locals(num)
             IN  IF l.exponent + 1 \notin DOMAIN UNITS
                 THEN Panic
                 ELSE Ok(negative \o Fixed2(l.hundredths) \o <<" ">>
                         \o UNITS[l.exponent + 1])

\* ------------------------------------------------------------- str, UTF-8
REPLACEMENT == <<"EF", "BF", "BD">>
ContinuationBytes == {CONT, "BF", "BD"}

\* whether the bytes from position i on are well-formed UTF-8
RECURSIVE ValidFrom(_, _)
ValidFrom(s, i) ==
    IF i > Len(s) THEN TRUE
    ELSE IF s[i] = LEAD
         THEN i + 1 <= Len(s) /\ s[i + 1] = CONT /\ ValidFrom(s, i + 2)
    ELSE IF s[i] = "EF"
         THEN i + 2 <= Len(s) /\ s[i + 1] = "BF" /\ s[i + 2] = "BD"
              /\ ValidFrom(s, i + 3)
    ELSE s[i] \notin ContinuationBytes \cup {BAD} /\ ValidFrom(s, i + 1)

ValidUtf8(s) == ValidFrom(s, 1)

\* str::is_char_boundary(i), i a byte offset counted from 0
is_char_boundary(s, i) ==
    i = 0 \/ i = Len(s) \/ (i < Len(s) /\ s[i + 1] \notin ContinuationBytes)

\* &s[..b] and &s[a..]: the slice, or a panic when the offset is past the end
\* or inside a character
SliceTo(s, b) == IF b <= Len(s) /\ is_char_boundary(s, b)
                 THEN Some(SubSeq(s, 1, b)) ELSE Panic
SliceFrom(s, a) == IF a <= Len(s) /\ is_char_boundary(s, a)
                   THEN Some(SubSeq(s, a + 1, Len(s))) ELSE Panic

\* fs::read_to_string: f is None (no such file, no permission) or Some(bytes);
\* bytes that are not UTF-8 are an error too
read_to_string(f) == IF f.tag = "Some" /\ ValidUtf8(f.val) THEN f ELSE None

\* str::lines(): split at "\n", the final line needs no terminator, and a
\* "\r" before the "\n" is dropped with it
RECURSIVE LinesFrom(_, _, _)
LinesFrom(s, i, cur) ==
    IF i > Len(s) THEN (IF cur = <<>> THEN <<>> ELSE <<cur>>)
    ELSE IF s[i] = "\n"
         THEN << (IF cur # <<>> /\ Last(cur) = "\r"
                  THEN SubSeq(cur, 1, Len(cur) - 1) ELSE cur) >>
              \o LinesFrom(s, i + 1, <<>>)
    ELSE LinesFrom(s, i + 1, Append(cur, s[i]))

lines(s) == LinesFrom(s, 1, <<>>)

\* str::trim_matches(c) and str::trim()
RECURSIVE TrimStart(_, _)
TrimStart(s, set) == IF s # <<>> /\ s[1] \in set THEN TrimStart(Tail(s), set) ELSE s
RECURSIVE TrimEnd(_, _)
TrimEnd(s, set) == IF s # <<>> /\ Last(s) \in set
                   THEN TrimEnd(SubSeq(s, 1, Len(s) - 1), set) ELSE s
trim_matches(s, c) == TrimEnd(TrimStart(s, {c}), {c})
WhiteSpace == {" ", "\t", "\n", "\r"}
trim(s) == TrimEnd(TrimStart(s, WhiteSpace), WhiteSpace)

\* s.splitn(2, c).next().unwrap(): the text before the first c, or all of s
RECURSIVE BeforeFirst(_, _)
BeforeFirst(s, c) == IF s = <<>> \/ s[1] = c THEN <<>>
                     ELSE <<s[1]>> \o BeforeFirst(Tail(s), c)

\* str::contains(pat)
contains(s, pat) ==
    \E i \in 1..(Len(s) - Len(pat) + 1) : SubSeq(s, i, i + Len(pat) - 1) = pat

\* str::to_lowercase on the letters of the model's alphabet
UpperCase == <<"A", "B", "C", "D", "E", "F", "G", "H", "I", "J", "K", "L", "M", "N", "O", "P", "Q", "R", "S", "T", "U", "V", "W", "X", "Y", "Z">>
LowerCase == <<"a", "b", "c", "d", "e", "f", "g", "h", "i", "j", "k", "l", "m", "n", "o", "p", "q", "r", "s", "t", "u", "v", "w", "x", "y", "z">>
LowerChar(c) == IF \E k \in DOMAIN UpperCase : UpperCase[k] = c
                THEN LowerCase[CHOOSE k \in DOMAIN UpperCase : UpperCase[k] = c]
                ELSE c
to_lowercase(s) == [i \in DOMAIN s |-> LowerChar(s[i])]

\* OsStr::to_string_lossy: every byte that is not part of a well-formed
\* character becomes U+FFFD
RECURSIVE LossyFrom(_, _)
LossyFrom(s, i) ==
    IF i > Len(s) THEN <<>>
    ELSE IF s[i] = LEAD /\ i + 1 <= Len(s) /\ s[i + 1] = CONT
         THEN <<LEAD, CONT>> \o LossyFrom(s, i + 2)
    ELSE IF s[i] \in ContinuationBytes \cup {BAD, LEAD, "EF"}
         THEN REPLACEMENT \o LossyFrom(s, i + 1)
    ELSE <<s[i]>> \o LossyFrom(s, i + 1)
to_string_lossy(s) == LossyFrom(s, 1)

\* util::get_base: the last segment of a path, the text after its final '/'
RECURSIVE get_base(_)
get_base(path) == IF path = <<>> \/ Last(path) = "/" THEN <<>>
                  ELSE Append(get_base(SubSeq(path, 1, Len(path) - 1)), Last(path))

\* util::char_ptr_to_string and util::os_str_to_string: the text of the C
\* string or OsStr
char_ptr_to_string(p) == p
os_str_to_string(s) == to_string_lossy(s)

\* ---------------------------------------------------------------- lookups
Unknown == <<"U", "n", "k", "n", "o", "w", "n">>
Linux == <<"L", "i", "n", "u", "x">>
UnknownFreq == <<"U", "n", "k", "n", "o", "w", "n", " ", "F", "r", "e", "q", ".">>
PRETTY_NAME == <<"P", "R", "E", "T", "T", "Y", "_", "N", "A", "M", "E">>
model_name == <<"m", "o", "d", "e", "l", " ", "n", "a", "m", "e">>

\* Option::unwrap_or_else(|| default)
unwrap_or_else(opt, default) == IF opt.tag = "Some" THEN opt.val ELSE default

\* get_logical_cpus: aff is the outcome of sched_getaffinity (its code and the
\* number of bits set) and of sysconf(_SC_NPROCESSORS_ONLN)
get_logical_cpus(aff) ==
    IF aff.code = 0 THEN aff.count
    ELSE IF aff.cpus > 1 THEN aff.cpus ELSE 1

\* str::parse::<usize>: an optional '+', then one or more decimal digits
RECURSIVE DigitsValue(_)
DigitsValue(s) ==
    IF s = <<>> THEN 0
    ELSE 10 * DigitsValue(SubSeq(s, 1, Len(s) - 1))
         + (CHOOSE d \in 0..9 : DigitChars[d + 1] = Last(s))
IsDigit(c) == \E d \in 0..9 : DigitChars[d + 1] = c
parse_usize(s) ==
    LET digits == IF s # <<>> /\ s[1] = "+" THEN Tail(s) ELSE s
    IN  IF digits # <<>> /\ \A i \in DOMAIN digits : IsDigit(digits[i])
        THEN Some(DigitsValue(digits)) ELSE None

\* get_cpu_max_freq: f is the scaling_max_freq file.  {:.2} of hz / 1000000.0
\* is the nearest hundredth; the frequencies used are not halfway between two
\* hundredths, where the binary value of the quotient would decide
get_cpu_max_freq(f) ==
    LET scaling_max_freq_str == read_to_string(f)
    IN  IF scaling_max_freq_str.tag = "None" THEN None
        ELSE LET max_freq_hz == parse_usize(trim(scaling_max_freq_str.val))
             IN  IF max_freq_hz.tag = "None" THEN None
                 ELSE Some(Fixed2((max_freq_hz.val + 5000) \div 10000)
                           \o <<" ", "G", "H", "z">>)

\* get_hostname: h is gethostname's return code and the buffer it filled
get_hostname(h) ==
    IF h.ret = 0
    THEN LET zeros == {i \in DOMAIN h.buffer : h.buffer[i] = "NUL"}
             end == IF zeros = {} THEN Len(h.buffer)
                    ELSE (CHOOSE i \in zeros : \A j \in zeros : i <= j) - 1
             name == SubSeq(h.buffer, 1, end)
         IN  IF ValidUtf8(name) THEN Some(name) ELSE None
    ELSE None

\* get_distro: the loop over the lines of at least 11 bytes
RECURSIVE DistroScan(_, _)
DistroScan(ls, i) ==
    IF i > Len(ls) THEN Some(Linux)
    ELSE IF Len(ls[i]) < 11 THEN DistroScan(ls, i + 1)
    ELSE LET key == SliceTo(ls[i], 11)
         IN  IF key = Panic THEN Panic
             ELSE IF key.val = PRETTY_NAME
                  THEN LET value == SliceFrom(ls[i], 13)
                       IN  IF value = Panic THEN Panic
                           ELSE Some(trim_matches(value.val, "\""))
             ELSE DistroScan(ls, i + 1)

\* get_distro: f is /etc/os-release
get_distro(f) ==
    LET distro == read_to_string(f)
    IN  IF distro.tag = "None" THEN None ELSE DistroScan(lines(distro.val), 1)

\* get_username_home_dir_and_shell: pw is getpwuid_r's code, whether it left
\* result null, and the record it filled
get_username_home_dir_and_shell(pw) ==
    IF pw.code = 0 /\ ~pw.result_is_null
    THEN Some([username |-> char_ptr_to_string(pw.pw_name),
               home_dir |-> char_ptr_to_string(pw.pw_dir),
               shell |-> get_base(char_ptr_to_string(pw.pw_shell))])
    ELSE None

\* the value get_cpu_model takes from a matching line
CpuModelValue(rest) == trim(BeforeFirst(rest, "@"))

\* get_cpu_model: the loop over the lines
RECURSIVE CpuModelScan(_, _)
CpuModelScan(ls, i) ==
    IF i > Len(ls) THEN None
    ELSE IF Len(ls[i]) < 11 THEN CpuModelScan(ls, i + 1)
    ELSE LET key == SliceTo(ls[i], 10)
         IN  IF key = Panic THEN Panic
             ELSE IF key.val = model_name
                  THEN LET rest == SliceFrom(ls[i], 12)
                       IN  IF rest = Panic THEN Panic
                           ELSE Some(CpuModelValue(rest.val))
             ELSE CpuModelScan(ls, i + 1)

\* get_cpu_model: f is /proc/cpuinfo
get_cpu_model(f) ==
    LET data == read_to_string(f)
    IN  IF data.tag = "None" THEN None ELSE CpuModelScan(lines(data.val), 1)

\* get_default_editor: v is the EDITOR variable
get_default_editor(v) ==
    IF v.tag = "None" THEN None ELSE Some(get_base(to_string_lossy(v.val)))

\* the match arms of get_desktop_environment, in the order written
DesktopTable == << [id |-> <<"g", "n", "o", "m", "e">>, label |-> <<"G", "n", "o", "m", "e">>],
                   [id |-> <<"l", "x", "d", "e">>, label |-> <<"L", "X", "D", "E">>],
                   [id |-> <<"o", "p", "e", "n", "b", "o", "x">>, label |-> <<"O", "p", "e", "n", "B", "o", "x">>],
                   [id |-> <<"i", "3">>, label |-> <<"i", "3">>],
                   [id |-> <<"u", "b", "u", "n", "t", "u">>, label |-> <<"U", "b", "u", "n", "t", "u">>],
                   [id |-> <<"p", "l", "a", "s", "m", "a">>, label |-> <<"K", "D", "E">>],
                   [id |-> <<"m", "a", "t", "e">>, label |-> <<"M", "A", "T", "E">>] >>

\* match env { _ if env.contains(..) => .., _ => env.as_str() }
MatchDesktop(env) ==
    LET hits == {k \in DOMAIN DesktopTable : contains(env, DesktopTable[k].id)}
    IN  IF hits = {} THEN env
        ELSE DesktopTable[CHOOSE k \in hits : \A j \in hits : k <= j].label

\* get_desktop_environment: v is the DESKTOP_SESSION variable;
\* env.to_str().unwrap() panics on a value that is not UTF-8
get_desktop_environment(v) ==
    IF v.tag = "None" THEN Ok(Unknown)
    ELSE IF ~ValidUtf8(v.val) THEN Panic
    ELSE Ok(MatchDesktop(to_lowercase(get_base(v.val))))

\* Vec<String>::join(" ")
RECURSIVE join(_, _)
join(v, sep) == IF v = <<>> THEN <<>>
                ELSE IF Len(v) = 1 THEN v[1]
                ELSE v[1] \o sep \o join(Tail(v), sep)

\* let distro = get_distro().unwrap_or_else(|| "Linux".to_string())
DistroOrDefaultMut(distro) == unwrap_or_else(distro, Unknown)
DistroOrDefault(distro) == unwrap_or_else(distro, Linux)

\* get_user_data: env is what the operating system answers to each lookup.
\* The build feature use_xlib selects the resolution probe: a list of monitor
\* resolutions that is joined, or an Option that is defaulted.
get_user_data(env) ==
    LET user == get_username_home_dir_and_shell(env.passwd)
        res == IF user.tag = "Some" THEN user.val
               ELSE [username |-> Unknown, home_dir |-> Unknown, shell |-> Unknown]
        hostname == unwrap_or_else(get_hostname(env.hostname), Unknown)
        distro == get_distro(env.os_release)
        resolution == IF env.use_xlib THEN join(env.resolution, <<" ">>)
                      ELSE unwrap_or_else(env.resolution, Unknown)
        cpu_model == get_cpu_model(env.cpuinfo)
        desk_env == get_desktop_environment(env.DESKTOP_SESSION)
        total_memory == pretty_bytes(F64(env.sysinfo.total_ram))
        used_memory == pretty_bytes(F64(env.sysinfo.total_ram - env.sysinfo.free_ram))
    IN  IF \/ env.cwd.tag = "None"
           \/ distro = Panic
           \/ cpu_model = Panic
           \/ desk_env = Panic
           \/ total_memory = Panic
           \/ used_memory = Panic
        THEN Panic
        ELSE Ok([username |-> res.username,
                 hostname |-> hostname,
                 cpu_info |-> unwrap_or_else(cpu_model, Unknown)
                              \o <<" ", "-", " ">>
                              \o to_string(get_logical_cpus(env.affinity))
                              \o <<"x", " ">>
                              \o unwrap_or_else(get_cpu_max_freq(env.max_freq),
                                                UnknownFreq),
                 cwd |-> os_str_to_string(env.cwd.val),
                 hmd |-> res.home_dir,
                 shell |-> res.shell,
                 editor |-> unwrap_or_else(get_default_editor(env.EDITOR), Unknown),
                 kernel_version |-> env.uname.release,
                 desk_env |-> desk_env.val,
                 distro |-> DistroOrDefault(distro) \o <<" ", "(">>
                            \o env.uname.machine \o <<")">>,
                 uptime |-> get_uptime(env.sysinfo.uptime),
                 total_memory |-> total_memory.val,
                 used_memory |-> used_memory.val,
                 monitor_res |-> resolution])

\* ------------------------------------------------------------------ inputs
\* uptimes: every combination of 0..MaxCount of each period, and the values
\* next to a period's boundary
UptimeInputs ==
    { y * periods[1].period + mo * periods[2].period + d * periods[3].period
      + h * periods[4].period + m * periods[5].period + s :
        y \in 0..MaxCount, mo \in 0..MaxCount, d \in 0..MaxCount,
        h \in 0..MaxCount, m \in 0..MaxCount, s \in 0..MaxCount }
    \cup { 59, 100, 150, 199, 3599, 6000, 86399, 360000, 2591999, 17280000,
           31535999, 63071999 }

\* magnitudes mant * 2^exp
ByteMantissas == {0, 1, 3, 9, 1023, 1025, 1048575, 1048577}
ByteInputs == [neg : BOOLEAN, mant : ByteMantissas, exp : 0..MaxExp2]

\* a file of the given lines, each ended by "\n"
RECURSIVE FileOf(_)
FileOf(ls) == IF ls = <<>> THEN <<>> ELSE ls[1] \o <<"\n">> \o FileOf(Tail(ls))
FilesOf(lineSet) ==
    { Some(FileOf(ls)) : ls \in UNION { [1..n -> lineSet] : n \in 0..MaxLines } }
    \cup { None, Some(<<"I", "D", BAD, "\n">>) }

OsReleaseLines ==
    { <<"P", "R", "E", "T", "T", "Y", "_", "N", "A", "M", "E", "=", "\"", "T", "e", "s", "t", " ", "L", "i", "n", "u", "x", "\"">>,
      <<"P", "R", "E", "T", "T", "Y", "_", "N", "A", "M", "E", "=", "\"", "A", "r", "c", "h", "\"">>,
      <<"N", "A", "M", "E", "=", "A", "r", "c", "h">>,
      <<"I", "D", "_", "L", "I", "K", "E", "=", "d", "e", "b", "i", "a", "n">>,
      <<"P", "R", "E", "T", "T", "Y", "_", "N", "A", "M", "E">>,
      <<"P", "R", "E", "T", "T", "Y", "_", "N", "A", "M", "E", "=">>,
      <<"P", "R", "E", "T", "T", "Y", "_", "N", "A", "M", "E", "=", "\"">>,
      <<"N", "A", "M", "E", "=", "\"", "L", "i", "n", "u", LEAD, CONT, "\"">>,
      <<"P", "R", "E", "T", "T", "Y", "_", "N", "A", "M", "E", "=", "V", "o", "i", "d">> }
CpuInfoLines ==
    { <<"m", "o", "d", "e", "l", " ", "n", "a", "m", "e", "\t", ":", " ", "I", "n", "t", "e", "l", " ", "i", "5", " ", "@", "3", ".", "2", "0", "G", "H", "z">>,
      <<"m", "o", "d", "e", "l", " ", "n", "a", "m", "e", "\t", ":", " ", "A", "M", "D", " ", "R", "y", "z", "e", "n">>,
      <<"p", "r", "o", "c", "e", "s", "s", "o", "r", "\t", ":", " ", "0">>,
      <<"f", "l", "a", "g", "s", ":", " ", "f", "p", "u">>,
      <<"m", "o", "d", "e", "l", " ", "n", "a", "m", "e", "\t">>,
      <<"m", "o", "d", "e", "l", " ", "n", "a", "m", "e", "\t", ":">>,
      <<"m", "o", "d", "e", "l", "\t", "\t", ":", " ", "4", "2">>,
      <<"v", "e", "n", "d", "o", "r", "_", "i", "d", LEAD, CONT, "x", "x">> }
OsReleaseFiles == FilesOf(OsReleaseLines)
CpuInfoFiles == FilesOf(CpuInfoLines)

DesktopSessions ==
    { None } \cup { Some(v) : v \in
    { <<"/", "u", "s", "r", "/", "s", "h", "a", "r", "e", "/", "x", "s", "e", "s", "s", "i", "o", "n", "s", "/", "i", "3">>,
      <<"f", "o", "o", "b", "a", "r">>,
      <<"G", "N", "O", "M", "E">>,
      <<"o", "p", "e", "n", "b", "o", "x", "-", "g", "n", "o", "m", "e">>,
      <<"u", "b", "u", "n", "t", "u", "-", "m", "a", "t", "e">>,
      <<"L", "u", "b", "u", "n", "t", "u">>,
      <<"/", "u", "s", "r", "/", "s", "h", "a", "r", "e", "/", "x", "s", "e", "s", "s", "i", "o", "n", "s", "/", "p", "l", "a", "s", "m", "a">>,
      <<"p", "l", "a", "s", "m", "a", "i", "3">>,
      <<"L", "X", "D", "E">>,
      <<"m", "a", "t", "e">>,
      <<"g", "n", "o", "m", "e", "/", "X", "f", "c", "e">>,
      <<>>,
      <<"c", "a", "f", BAD>>,
      <<"c", "a", "f", LEAD, CONT>> } }
MaxFreqFiles ==
    { None } \cup { Some(v) : v \in
    { <<"3", "2", "0", "0", "0", "0", "0", "\n">>,
      <<"a", "b", "c", "\n">>,
      <<>>,
      <<"+", "1", "8", "0", "0", "0", "0", "0", "\n">>,
      <<" ", "2", "4", "0", "0", "0", "0", "0", " ", "\n">>,
      <<"3", "2", BAD>> } }
Editors ==
    { None } \cup { Some(v) : v \in
    { <<"/", "u", "s", "r", "/", "b", "i", "n", "/", "v", "i", "m">>,
      <<"n", "a", "n", "o">>,
      <<"v", "i", BAD>> } }
Hostnames ==
    [ret : {0, -1}, buffer :
    { <<"h", "o", "s", "t", "NUL", "NUL">>,
      <<"h", BAD, "NUL">>,
      <<"NUL">>,
      <<"b", "o", "x">> } ]
Passwds ==
    [code : {0, 34}, result_is_null : BOOLEAN,
     pw_name : {<<"a", "l", "i", "c", "e">>}, pw_dir : {<<"/", "h", "o", "m", "e", "/", "a", "l", "i", "c", "e">>},
     pw_shell : {<<"/", "b", "i", "n", "/", "z", "s", "h">>, <<"f", "i", "s", "h">>}]
Affinities == { [code |-> 0, count |-> 8, cpus |-> 8],
                [code |-> 0, count |-> 1, cpus |-> 4],
                [code |-> -1, count |-> 0, cpus |-> 4],
                [code |-> -1, count |-> 0, cpus |-> -1] }

\* the answers get_user_data is run against: two or three outcomes of every
\* lookup, in every combination
Envs ==
    [passwd : { pw \in Passwds : pw.pw_shell = <<"/", "b", "i", "n", "/", "z", "s", "h">> /\ (pw.code = 0) = ~pw.result_is_null },
     cwd : { None, Some(<<"/", "t", "m", "p">>) },
     uname : { [release |-> <<"5", ".", "4", ".", "0">>, machine |-> <<"x", "8", "6", "_", "6", "4">>] },
     hostname : { h \in Hostnames : h.buffer = <<"h", "o", "s", "t", "NUL", "NUL">> },
     os_release : { None, Some(FileOf(<<<<"P", "R", "E", "T", "T", "Y", "_", "N", "A", "M", "E", "=", "\"", "T", "e", "s", "t", " ", "L", "i", "n", "u", "x", "\"">>>>)), Some(FileOf(<<<<"P", "R", "E", "T", "T", "Y", "_", "N", "A", "M", "E", "=">>>>)) },
     sysinfo : { [uptime |-> 90061, total_ram |-> 1048576, free_ram |-> 262144] },
     use_xlib : {FALSE},
     resolution : { None, Some(<<"1", "9", "2", "0", "x", "1", "0", "8", "0">>) },
     cpuinfo : { None, Some(FileOf(<<<<"m", "o", "d", "e", "l", " ", "n", "a", "m", "e", "\t", ":", " ", "I", "n", "t", "e", "l", " ", "i", "5", " ", "@", "3", ".", "2", "0", "G", "H", "z">>>>)), Some(FileOf(<<<<"m", "o", "d", "e", "l", " ", "n", "a", "m", "e", "\t">>>>)) },
     affinity : { a \in Affinities : a.cpus = 4 },
     max_freq : { None, Some(<<"3", "2", "0", "0", "0", "0", "0", "\n">>) },
     EDITOR : { None, Some(<<"/", "u", "s", "r", "/", "b", "i", "n", "/", "v", "i", "m">>) },
     DESKTOP_SESSION : { None, Some(<<"/", "u", "s", "r", "/", "s", "h", "a", "r", "e", "/", "x", "s", "e", "s", "s", "i", "o", "n", "s", "/", "i", "3">>), Some(<<"c", "a", "f", BAD>>) }]
    \cup
    [passwd : { pw \in Passwds : pw.pw_shell = <<"/", "b", "i", "n", "/", "z", "s", "h">> /\ pw.code = 0 /\ ~pw.result_is_null },
     cwd : { Some(<<"/", "t", "m", "p">>) },
     uname : { [release |-> <<"5", ".", "4", ".", "0">>, machine |-> <<"x", "8", "6", "_", "6", "4">>] },
     hostname : { h \in Hostnames : h.buffer = <<"h", "o", "s", "t", "NUL", "NUL">> /\ h.ret = 0 },
     os_release : { None },
     sysinfo : { [uptime |-> 0, total_ram |-> 0, free_ram |-> 0] },
     use_xlib : {TRUE},
     resolution : { <<>>, <<<<"1", "9", "2", "0", "x", "1", "0", "8", "0">>>>, <<<<"1", "9", "2", "0", "x", "1", "0", "8", "0">>, <<"1", "2", "8", "0", "x", "7", "2", "0">>>> },
     cpuinfo : { None },
     affinity : { a \in Affinities : a.cpus = 4 },
     max_freq : { None },
     EDITOR : { None },
     DESKTOP_SESSION : { None }]

\* ----------------------------------------------------------------- actions
\* One run of the program makes one call.  called: the function that ran; input: its argument or what the system
\* answered; result: what it returned, or Panic; aux: the states of the loop
\* or the locals of the call, where a property speaks of them
Init == /\ called = "none"
        /\ input = <<>>
        /\ result = Ok(<<>>)
        /\ aux = <<>>

GetUptime == \E c \in UptimeInputs :
    /\ called = "none"
    /\ called' = "get_uptime"
    /\ input' = c
    /\ result' = Ok(get_uptime(c))
    /\ aux' = UptimeTrace(c)

PrettyBytes == \E num \in ByteInputs :
    /\ called = "none"
    /\ called' = "pretty_bytes"
    /\ input' = num
    /\ result' = pretty_bytes(num)
    /\ aux' = IF num.mant = 0 THEN <<>> ELSE pretty_bytes_locals(num)

GetDistro == \E f \in OsReleaseFiles :
    /\ called = "none"
    /\ called' = "get_distro"
    /\ input' = f
    /\ result' = get_distro(f)
    /\ aux' = <<>>

GetCpuModel == \E f \in CpuInfoFiles :
    /\ called = "none"
    /\ called' = "get_cpu_model"
    /\ input' = f
    /\ result' = get_cpu_model(f)
    /\ aux' = <<>>

GetCpuMaxFreq == \E f \in MaxFreqFiles :
    /\ called = "none"
    /\ called' = "get_cpu_max_freq"
    /\ input' = f
    /\ result' = get_cpu_max_freq(f)
    /\ aux' = <<>>

GetLogicalCpus == \E a \in Affinities :
    /\ called = "none"
    /\ called' = "get_logical_cpus"
    /\ input' = a
    /\ result' = Ok(get_logical_cpus(a))
    /\ aux' = <<>>

GetHostname == \E h \in Hostnames :
    /\ called = "none"
    /\ called' = "get_hostname"
    /\ input' = h
    /\ result' = get_hostname(h)
    /\ aux' = <<>>

GetUsernameHomeDirAndShell == \E pw \in Passwds :
    /\ called = "none"
    /\ called' = "get_username_home_dir_and_shell"
    /\ input' = pw
    /\ result' = get_username_home_dir_and_shell(pw)
    /\ aux' = <<>>

GetDefaultEditor == \E v \in Editors :
    /\ called = "none"
    /\ called' = "get_default_editor"
    /\ input' = v
    /\ result' = get_default_editor(v)
    /\ aux' = <<>>

GetDesktopEnvironment == \E v \in DesktopSessions :
    /\ called = "none"
    /\ called' = "get_desktop_environment"
    /\ input' = v
    /\ result' = get_desktop_environment(v)
    /\ aux' = <<>>

GetUserData == \E env \in Envs :
    /\ called = "none"
    /\ called' = "get_user_data"
    /\ input' = env
    /\ result' = get_user_data(env)
    /\ aux' = <<>>

Next == \/ GetUptime
        \/ PrettyBytes
        \/ GetDistro
        \/ GetCpuModel
        \/ GetCpuMaxFreq
        \/ GetLogicalCpus
        \/ GetHostname
        \/ GetUsernameHomeDirAndShell
        \/ GetDefaultEditor
        \/ GetDesktopEnvironment
        \/ GetUserData

Spec == Init /\ [][Next]_vars

\* ================================================================= claims
\* the period table as the specification states it: seconds per unit and name
ClaimPeriods == <<31536000, 2592000, 86400, 3600, 60, 1>>
ClaimNames == << <<"y", "e", "a", "r">>, <<"m", "o", "n", "t", "h">>, <<"d", "a", "y">>, <<"h", "o", "u", "r">>, <<"m", "i", "n", "u", "t", "e">>, <<"s", "e", "c", "o", "n", "d">> >>

\* what is left of s after the first k periods, and the count of period k
RECURSIVE Remainder(_, _)
Remainder(s, k) == IF k = 0 THEN s ELSE Remainder(s, k - 1) % ClaimPeriods[k]
Count(s, k) == Remainder(s, k - 1) \div ClaimPeriods[k]

\* "<count> <unit>", with an "s" when the count is greater than 1
Entry(s, k) == to_string(Count(s, k)) \o <<" ">> \o ClaimNames[k]
               \o (IF Count(s, k) > 1 THEN <<"s">> ELSE <<>>)

\* the entries of the periods from k on whose count is not zero, in table
\* order, with one space between two entries
RECURSIVE EntriesFrom(_, _)
EntriesFrom(s, k) ==
    IF k > 6 THEN <<>>
    ELSE IF Count(s, k) = 0 THEN EntriesFrom(s, k + 1)
    ELSE LET rest == EntriesFrom(s, k + 1)
         IN  IF rest = <<>> THEN Entry(s, k) ELSE Entry(s, k) \o <<" ">> \o rest
DurationString(s) == EntriesFrom(s, 1)

\* C1: get_uptime(c) is the duration string of floor(c / 100) seconds, for
\* every count c of centiseconds (100 gives "1 second", 6000 "1 minute")
C1_UptimeTruncatesCentiseconds ==
    called = "get_uptime" => result = Ok(DurationString(input \div 100))

\* C2: get_user_data returns a UserData record for every combination of
\* outcomes of the lookups; it never aborts
C2_GetUserDataCannotFail ==
    called = "get_user_data" => result.tag = "Ok"

UserDataFields == {"username", "hostname", "cpu_info", "cwd", "hmd", "shell",
                   "desk_env", "distro", "uptime", "editor", "kernel_version",
                   "total_memory", "used_memory", "monitor_res"}
UserIsAbsent(env) == env.passwd.code # 0 \/ env.passwd.result_is_null

BeginsWith(line, key) == Len(line) >= Len(key) /\ SubSeq(line, 1, Len(key)) = key
FirstLineWith(ls, key) ==
    ls[CHOOSE i \in DOMAIN ls : /\ BeginsWith(ls[i], key)
                                /\ \A j \in 1..(i - 1) : ~BeginsWith(ls[j], key)]
Readable(f) == f.tag = "Some" /\ ValidUtf8(f.val)

\* C4: get_distro has exactly three outcomes: absent for an unreadable file;
\* "Linux" for a readable file with no line beginning with PRETTY_NAME;
\* otherwise the value of the first such line (offset 13 on), quotes removed
C4_DistroThreeOutcomes ==
    called = "get_distro" =>
        IF ~Readable(input) THEN result = None
        ELSE LET ls == lines(input.val)
             IN  IF \A i \in DOMAIN ls : ~BeginsWith(ls[i], PRETTY_NAME)
                 THEN result = Some(<<"L", "i", "n", "u", "x">>)
                 ELSE LET line == FirstLineWith(ls, PRETTY_NAME)
                      IN  result = Some(trim_matches(SubSeq(line, 14, Len(line)), "\""))

\* C5: get_distro and get_cpu_model end in a value or in absent for every
\* content of the file, lines of 11 or 12 bytes included; they never fail
C5_ParsersNeverFail ==
    called \in {"get_distro", "get_cpu_model"} => result.tag \in {"Some", "None"}

\* the label of the first identifier, in the order of the specification,
\* that the text contains, or the text itself
ClaimLabel(env) ==
    IF contains(env, <<"g", "n", "o", "m", "e">>) THEN <<"G", "n", "o", "m", "e">>
    ELSE IF contains(env, <<"l", "x", "d", "e">>) THEN <<"L", "X", "D", "E">>
    ELSE IF contains(env, <<"o", "p", "e", "n", "b", "o", "x">>) THEN <<"O", "p", "e", "n", "B", "o", "x">>
    ELSE IF contains(env, <<"i", "3">>) THEN <<"i", "3">>
    ELSE IF contains(env, <<"u", "b", "u", "n", "t", "u">>) THEN <<"U", "b", "u", "n", "t", "u">>
    ELSE IF contains(env, <<"p", "l", "a", "s", "m", "a">>) THEN <<"K", "D", "E">>
    ELSE IF contains(env, <<"m", "a", "t", "e">>) THEN <<"M", "A", "T", "E">>
    ELSE env

\* C6: get_desktop_environment gives "Unknown" when DESKTOP_SESSION is unset
\* and otherwise, for every value, the label of the first identifier the
\* lowercased base-name contains, or that lowercased base-name
C6_DesktopFirstMatch ==
    called = "get_desktop_environment" =>
        result = IF input = None THEN Ok(<<"U", "n", "k", "n", "o", "w", "n">>)
                 ELSE Ok(ClaimLabel(to_lowercase(get_base(input.val))))

\* C7: the string get_uptime returns for s whole seconds is the entries
\* "<count> <unit>" of exactly the periods with a non-zero count, largest
\* first, one space apart, no space at either end, the unit with an "s"
\* exactly when the count is above 1; it is empty for s = 0
C7_DurationString ==
    called = "get_uptime" =>
        LET s == aux[1].uptime_in_seconds
            text == result.val
        IN  /\ result = Ok(DurationString(s))
            /\ s = 0 => text = <<>>
            /\ text # <<>> => text[1] # " " /\ Last(text) # " "
            /\ \A i \in 1..(Len(text) - 1) : ~(text[i] = " " /\ text[i + 1] = " ")

\* C7 witness: 2 days, 1 minute and 1 second: a plural, two singulars, and
\* the hour left out
C7_Witness ==
    /\ called = "get_uptime"
    /\ aux[1].uptime_in_seconds = 2 * 86400 + 60 + 1
    /\ result = Ok(<<"2", " ", "d", "a", "y", "s", " ", "1", " ", "m", "i", "n", "u", "t", "e", " ", "1", " ", "s", "e", "c", "o", "n", "d">>)

\* whether the magnitude mant * 2^exp is at least 1024^k
AtLeastPow1024(num, k) ==
    IF num.exp >= 10 * k THEN num.mant >= 1
    ELSE IF 10 * k - num.exp > 30 THEN FALSE
    ELSE num.mant >= Pow2(10 * k - num.exp)

ClaimUnits == << <<"B">>, <<"k", "B">>, <<"M", "B">>, <<"G", "B">>, <<"T", "B">> >>

\* C8: for every magnitude m >= 1, pretty_bytes takes the unit at index
\* min(floor(log1024 m), 4) of (B, kB, MB, GB, TB): the index is inside the
\* table, the value shown is m / 1024^index to the nearest hundredth, and
\* every m >= 1024^4 is shown in TB
C8_UnitIsClampedPower ==
    called = "pretty_bytes" /\ input.mant >= 1 =>
        /\ result.tag = "Ok"
        /\ aux.exponent \in 0..4
        /\ AtLeastPow1024(input, aux.exponent)
        /\ aux.exponent < 4 => ~AtLeastPow1024(input, aux.exponent + 1)
        /\ AtLeastPow1024(input, 4) => aux.exponent = 4
        /\ LET text == result.val
               unit == <<" ">> \o ClaimUnits[aux.exponent + 1]
               sh == 10 * aux.exponent - input.exp
               h == aux.hundredths
           IN  /\ Len(text) > Len(unit)
               /\ SubSeq(text, Len(text) - Len(unit) + 1, Len(text)) = unit
               /\ SubSeq(text, 1, Len(text) - Len(unit))
                    = (IF input.neg THEN <<"-">> ELSE <<>>) \o Fixed2(h)
               /\ IF sh <= 0 THEN h = 100 * input.mant * Pow2(-sh)
                  ELSE LET diff == h * Pow2(sh) - 100 * input.mant
                       IN  2 * diff <= Pow2(sh) /\ -2 * diff <= Pow2(sh)

\* C8 witness: 1025 * 2^40 bytes, above 1024^5, shown as 1025.00 TB
C8_Witness ==
    /\ called = "pretty_bytes"
    /\ input = [neg |-> FALSE, mant |-> 1025, exp |-> 40]
    /\ aux.v1 = 5
    /\ result = Ok(<<"1", "0", "2", "5", ".", "0", "0", " ", "T", "B">>)

\* C9: get_cpu_model gives absent when /proc/cpuinfo is unreadable or has no
\* line whose first 10 characters are "model name"; otherwise, for the first
\* such line, the text from offset 12 up to the first '@', trimmed
C9_CpuModelBeforeAt ==
    called = "get_cpu_model" =>
        IF ~Readable(input) THEN result = None
        ELSE LET ls == lines(input.val)
             IN  IF \A i \in DOMAIN ls : ~BeginsWith(ls[i], model_name)
                 THEN result = None
                 ELSE LET line == FirstLineWith(ls, model_name)
                          value == trim(BeforeFirst(SubSeq(line, 13, Len(line)), "@"))
                      IN  result = Some(value)
                          /\ \A i \in DOMAIN value : value[i] # "@"

\* C10: the counts the loop of get_uptime computes add up to the value n it
\* decomposes, years*31536000 + months*2592000 + days*86400 + hours*3600 +
\* minutes*60 + seconds = n, with months <= 12, days <= 29, hours <= 23,
\* minutes <= 59, seconds <= 59; what is left after each period is less than
\* that period, and nothing is left when the loop ends
C10_DecompositionLosesNothing ==
    called = "get_uptime" =>
        LET n == aux[1].uptime_in_seconds
            times == [k \in 1..6 |-> aux[k + 1].times]
        IN  /\ Len(aux) = 7
            /\ times[1] * 31536000 + times[2] * 2592000 + times[3] * 86400
               + times[4] * 3600 + times[5] * 60 + times[6] = n
            /\ times[2] <= 12 /\ times[3] <= 29 /\ times[4] <= 23
            /\ times[5] <= 59 /\ times[6] <= 59
            /\ \A k \in 1..6 : /\ aux[k + 1].uptime_in_seconds >= 0
                               /\ aux[k + 1].uptime_in_seconds < ClaimPeriods[k]
            /\ aux[7].uptime_in_seconds = 0

\* C10 witness: one second short of two years: 1 year, 12 months, 4 days,
\* 23 hours, 59 minutes, 59 seconds
C10_Witness ==
    /\ called = "get_uptime"
    /\ aux[1].uptime_in_seconds = 63071999
    /\ aux[2].times = 1 /\ aux[3].times = 12 /\ aux[4].times = 4
    /\ aux[5].times = 23 /\ aux[6].times = 59 /\ aux[7].times = 59

====
